---------------------------- MODULE Spec2Model ----------------------------
(***************************************************************************)
(* A model of SynthRAD2023/metrics, functions/dose_metrics.py: the class   *)
(* DoseMetrics with its methods dvh_metric, mae_dose and score_patient.    *)
(*                                                                         *)
(* Python values.  A JSON/float value is one of                            *)
(*     <<"None">>            Python None (JSON null)                       *)
(*     <<"nan">>             float('nan')                                  *)
(*     <<"num", n, d>>       the number n/d, d > 0, in lowest terms        *)
(* Arithmetic is exact rational arithmetic: the rounding of IEEE doubles   *)
(* is not modelled.  A dict is the sequence of its <<key, value>> pairs in *)
(* insertion order, a list is a sequence, and list positions are 1-based   *)
(* here where Python's are 0-based.                                        *)
(***************************************************************************)
EXTENDS Integers, Sequences, FiniteSets, TLC

VARIABLES
    prescribed_dose,  \* self.prescribed_dose: region -> dose in Gy
    frame,            \* the activation of dvh_metric: arguments, locals, position
    mae,              \* the activation of mae_dose: arguments and result
    sp                \* the activation of score_patient, with the workspace files

vars == <<prescribed_dose, frame, mae, sp>>

---------------------------------------------------------------------------
(* Python values *)

None == <<"None">>
NaN == <<"nan">>
Unset == <<"unset">>

IsNum(x) == x[1] = "num"

AbsInt(i) == IF i < 0 THEN -i ELSE i

RECURSIVE GCD(_, _)
GCD(a, b) == IF b = 0 THEN a ELSE GCD(b, a % b)

\* n/d in lowest terms with a positive denominator (d # 0)
Norm(n, d) ==
    LET s == IF d < 0 THEN -1 ELSE 1
        g == GCD(AbsInt(n), AbsInt(d))
    IN  <<"num", (s * n) \div g, (s * d) \div g>>

Num(i) == <<"num", i, 1>>
LCM(a, b) == (a \div GCD(a, b)) * b

\* float arithmetic: a nan operand gives nan
FAdd(a, b) ==
    IF IsNum(a) /\ IsNum(b)
    THEN LET l == LCM(a[3], b[3]) IN Norm(a[2] * (l \div a[3]) + b[2] * (l \div b[3]), l)
    ELSE NaN
FSub(a, b) ==
    IF IsNum(a) /\ IsNum(b)
    THEN LET l == LCM(a[3], b[3]) IN Norm(a[2] * (l \div a[3]) - b[2] * (l \div b[3]), l)
    ELSE NaN
FMul(a, b) == IF IsNum(a) /\ IsNum(b) THEN Norm(a[2] * b[2], a[3] * b[3]) ELSE NaN
\* a / b; numpy's x / 0 is nan for x = 0 and inf otherwise, and no input
\* explored here divides a non-zero number by zero
FDiv(a, b) ==
    IF IsNum(a) /\ IsNum(b) /\ b[2] # 0 THEN Norm(a[2] * b[3], a[3] * b[2]) ELSE NaN
FAbs(a) == IF IsNum(a) THEN <<"num", AbsInt(a[2]), a[3]>> ELSE NaN

\* Python's a < b and a >= b on floats: False as soon as one side is nan
PyLt(a, b) == IsNum(a) /\ IsNum(b) /\ a[2] * b[3] < b[2] * a[3]
PyGe(a, b) == IsNum(a) /\ IsNum(b) /\ a[2] * b[3] >= b[2] * a[3]

\* x is None or math.isnan(x)
NoneOrNaN(x) == x = None \/ x = NaN

RECURSIVE FSum(_)
FSum(s) == IF s = <<>> THEN Num(0) ELSE FAdd(Head(s), FSum(Tail(s)))

Reverse(s) == [i \in 1..Len(s) |-> s[Len(s) + 1 - i]]

Min(a, b) == IF a <= b THEN a ELSE b

---------------------------------------------------------------------------
(* dicts: sequences of <<key, value>> in insertion order *)

DictKeys(d) == [i \in 1..Len(d) |-> d[i][1]]
DictHas(d, k) == \E i \in 1..Len(d) : d[i][1] = k
DictGet(d, k) == d[CHOOSE i \in 1..Len(d) : d[i][1] = k][2]
\* d[k] = v: a new key is appended, a known key keeps its place
DictSet(d, k, v) ==
    IF DictHas(d, k)
    THEN [i \in 1..Len(d) |-> IF d[i][1] = k THEN <<k, v>> ELSE d[i]]
    ELSE Append(d, <<k, v>>)


---------------------------------------------------------------------------
(* sorted(d, key=d.get, reverse=True), as CPython sorts a list of fewer    *)
(* than 64 items: the list is reversed, sorted stably in ascending order   *)
(* (the leading run is found, a strictly descending run is reversed, the   *)
(* rest is inserted by binary insertion), and reversed again.  Every       *)
(* comparison is key(x) < key(y), which is False when a key is nan.        *)

KeyLt(x, y) == PyLt(x[2], y[2])

RECURSIVE DescEnd(_, _)
DescEnd(a, i) ==
    IF i <= Len(a) /\ KeyLt(a[i], a[i - 1]) THEN DescEnd(a, i + 1) ELSE i - 1

RECURSIVE AscEnd(_, _)
AscEnd(a, i) ==
    IF i <= Len(a) /\ ~KeyLt(a[i], a[i - 1]) THEN AscEnd(a, i + 1) ELSE i - 1

\* count_run: <<length of the leading run, whether it is descending>>
CountRun(a) ==
    IF Len(a) <= 1 THEN <<Len(a), FALSE>>
    ELSE IF KeyLt(a[2], a[1]) THEN <<DescEnd(a, 3), TRUE>>
    ELSE <<AscEnd(a, 3), FALSE>>

\* the 0-based place in a[l0 .. r0-1] where pivot goes, right of its equals
RECURSIVE Bisect(_, _, _, _)
Bisect(a, pivot, l0, r0) ==
    IF l0 < r0
    THEN LET p0 == l0 + (r0 - l0) \div 2
         IN  IF KeyLt(pivot, a[p0 + 1])
             THEN Bisect(a, pivot, l0, p0)
             ELSE Bisect(a, pivot, p0 + 1, r0)
    ELSE l0

\* binarysort: a[1 .. start] is sorted; insert a[start+1], a[start+2], ...
RECURSIVE BinarySort(_, _)
BinarySort(a, start) ==
    IF start >= Len(a) THEN a
    ELSE LET pivot == a[start + 1]
             l0 == Bisect(a, pivot, 0, start)
         IN  BinarySort(SubSeq(a, 1, l0) \o <<pivot>> \o SubSeq(a, l0 + 1, start)
                            \o SubSeq(a, start + 2, Len(a)),
                        start + 1)

ListSort(a) ==
    LET run == CountRun(a)
        b == IF run[2] THEN Reverse(SubSeq(a, 1, run[1])) \o SubSeq(a, run[1] + 1, Len(a))
             ELSE a
    IN  BinarySort(b, run[1])

\* the keys of dict d, ordered by their values, largest first
SortedReverse(d) == DictKeys(Reverse(ListSort(Reverse(d))))

---------------------------------------------------------------------------
(* DoseMetrics.dvh_metric.  A DVH record is a TLA+ record with the fields  *)
(* name, D_2, D_5, D_98, mean and the conformity-index fields CI_<dose>Gy. *)
(* The activation (frame) holds the arguments, the locals and the position *)
(* pc; each operator below is one stretch of the function body and maps    *)
(* the frame before it to the frame after it.                              *)

\* The default of the parameter eps is 1e-12.  The model's integers are
\* 32-bit, so eps is scaled to 1/100 of the dose unit: still positive and
\* far below every non-zero statistic of the inputs, which are whole units.
eps == <<"num", 1, 100>>

Digits == <<"0", "1", "2", "3", "4", "5", "6", "7", "8", "9">>

\* str(i) for 0 <= i < 100
IntStr(i) == IF i < 10 THEN Digits[i + 1] ELSE Digits[(i \div 10) + 1] \o Digits[(i % 10) + 1]

\* pd_str: int(pd) when pd % 1 == 0, else f"{pd}".replace('.', '_').  The
\* decimal string is that of a dose with one decimal digit (2.5 -> "2_5").
PdStr(pd) ==
    IF pd[2] % pd[3] = 0
    THEN IntStr(pd[2] \div pd[3])
    ELSE IntStr(pd[2] \div pd[3]) \o "_" \o IntStr(((pd[2] % pd[3]) * 10) \div pd[3])

\* f'CI_{pd_str}Gy'
CIKey(pd) == "CI_" \o PdStr(pd) \o "Gy"

Targets == {"PTV", "GTV", "CTV"}

\* {dvh[i]['name']: i for i in range(len(dvh))}
RECURSIVE OrganIndFrom(_, _, _)
OrganIndFrom(dvh, i, d) ==
    IF i > Len(dvh) THEN d ELSE OrganIndFrom(dvh, i + 1, DictSet(d, dvh[i].name, i))

OrganInd(dvh) == OrganIndFrom(dvh, 1, <<>>)

NewFrame(gt_dvh, pred_dvh, region) ==
    [pc |-> "index", gt_dvh |-> gt_dvh, pred_dvh |-> pred_dvh, region |-> region,
     gt_organ_ind |-> <<>>, pred_organ_ind |-> <<>>,
     D98_target |-> Unset, V95_target |-> Unset, target_term |-> Unset,
     mean_D5_Dmean_per_OAR |-> <<>>, OAR_used |-> <<>>, k |-> 0,
     D2_OAR |-> <<>>, Dmean_OAR |-> <<>>, OAR_term |-> Unset,
     warned |-> <<>>, exc |-> "none", ret |-> Unset]

\* warnings.warn(w); return float('nan')
ReturnNaN(f, w) == [f EXCEPT !.pc = "returned", !.ret = NaN, !.warned = Append(@, w)]

\* an exception leaves the function
Raise(f, e) == [f EXCEPT !.pc = "raised", !.exc = e]

\* np.abs(a - b + eps) / (a + eps)
RelDiff(a, b) == FDiv(FAbs(FAdd(FSub(a, b), eps)), FAdd(a, eps))

\* lines 148-149
BuildIndex(f) ==
    [f EXCEPT !.pc = "d98",
              !.gt_organ_ind = OrganInd(f.gt_dvh),
              !.pred_organ_ind = OrganInd(f.pred_dvh)]

PtvGt(f) == f.gt_dvh[DictGet(f.gt_organ_ind, "PTV")]
PtvPred(f) == f.pred_dvh[DictGet(f.pred_organ_ind, "PTV")]

\* TargetD98 with the return after the sCT warning forgotten
TargetD98_NoReturn(f) ==
    IF ~DictHas(f.gt_organ_ind, "PTV") \/ ~DictHas(f.pred_organ_ind, "PTV")
    THEN Raise(f, "KeyError")
    ELSE IF NoneOrNaN(PtvGt(f).D_98) THEN ReturnNaN(f, <<"gt", "PTV", "D98">>)
    ELSE [f EXCEPT !.pc = "ci", !.D98_target = RelDiff(PtvGt(f).D_98, PtvPred(f).D_98),
                   !.warned = IF NoneOrNaN(PtvPred(f).D_98)
                              THEN Append(@, <<"sCT", "PTV", "D98">>) ELSE @]

\* lines 152-164
TargetD98(f) ==
    IF ~DictHas(f.gt_organ_ind, "PTV") \/ ~DictHas(f.pred_organ_ind, "PTV")
    THEN Raise(f, "KeyError")
    ELSE IF NoneOrNaN(PtvGt(f).D_98) THEN ReturnNaN(f, <<"gt", "PTV", "D98">>)
    ELSE IF NoneOrNaN(PtvPred(f).D_98) THEN ReturnNaN(f, <<"sCT", "PTV", "D98">>)
    ELSE [f EXCEPT !.pc = "ci", !.D98_target = RelDiff(PtvGt(f).D_98, PtvPred(f).D_98)]

\* TargetCI with the check of the sCT's conformity index left out
TargetCI_GtOnly(f, pdose) ==
    LET key == CIKey(pdose[f.region])
    IN  IF key \notin DOMAIN PtvGt(f) THEN Raise(f, "KeyError")
        ELSE IF NoneOrNaN(PtvGt(f)[key]) THEN ReturnNaN(f, <<"gt", "PTV", "CI">>)
        ELSE IF key \notin DOMAIN PtvPred(f) THEN Raise(f, "KeyError")
        ELSE LET v95 == RelDiff(PtvGt(f)[key], PtvPred(f)[key])
             IN  [f EXCEPT !.pc = "rank", !.V95_target = v95,
                           !.target_term = FAdd(f.D98_target, v95)]

\* lines 166-181
TargetCI(f, pdose) ==
    LET key == CIKey(pdose[f.region])
    IN  IF key \notin DOMAIN PtvGt(f) THEN Raise(f, "KeyError")
        ELSE IF NoneOrNaN(PtvGt(f)[key]) THEN ReturnNaN(f, <<"gt", "PTV", "CI">>)
        ELSE IF key \notin DOMAIN PtvPred(f) THEN Raise(f, "KeyError")
        ELSE IF NoneOrNaN(PtvPred(f)[key]) THEN ReturnNaN(f, <<"sCT", "PTV", "CI">>)
        ELSE LET v95 == RelDiff(PtvGt(f)[key], PtvPred(f)[key])
             IN  [f EXCEPT !.pc = "rank", !.V95_target = v95,
                           !.target_term = FAdd(f.D98_target, v95)]

\* (oar_gt['D_5'] + oar_gt['mean']) / 2; None + x is a TypeError
RankKey(oar_gt) == FDiv(FAdd(oar_gt.D_5, oar_gt.mean), Num(2))

\* lines 184-188: the loop over gt_organ_ind.items() from item i on
RECURSIVE RankFrom(_, _)
RankFrom(f, i) ==
    IF i > Len(f.gt_organ_ind) THEN [f EXCEPT !.pc = "select"]
    ELSE LET organ == f.gt_organ_ind[i][1]
             oar_gt == f.gt_dvh[f.gt_organ_ind[i][2]]
         IN  IF organ \in Targets THEN RankFrom(f, i + 1)
             ELSE IF oar_gt.D_5 = None \/ oar_gt.mean = None THEN Raise(f, "TypeError")
             ELSE RankFrom([f EXCEPT !.mean_D5_Dmean_per_OAR =
                                         DictSet(@, organ, RankKey(oar_gt))],
                           i + 1)

RankOARs(f) == RankFrom(f, 1)

\* lines 189-190
SelectOARs(f) ==
    LET sorted == SortedReverse(f.mean_D5_Dmean_per_OAR)
        used == SubSeq(sorted, 1, Min(3, Len(sorted)))
    IN  [f EXCEPT !.OAR_used = used,
                  !.pc = IF Len(used) > 0 THEN "oar" ELSE "aggregate"]

\* lines 195-219: one iteration of the loop over OAR_used
OARStep(f) ==
    LET organ == f.OAR_used[f.k + 1]
        oar_gt == f.gt_dvh[DictGet(f.gt_organ_ind, organ)]
        oar_pred == f.pred_dvh[DictGet(f.pred_organ_ind, organ)]
    IN  IF ~DictHas(f.pred_organ_ind, organ) THEN Raise(f, "KeyError")
        ELSE IF NoneOrNaN(oar_gt.D_2) THEN ReturnNaN(f, <<"gt", organ, "D2">>)
        ELSE IF NoneOrNaN(oar_pred.D_2) THEN ReturnNaN(f, <<"sCT", organ, "D2">>)
        ELSE LET g == [f EXCEPT !.D2_OAR = Append(@, RelDiff(oar_gt.D_2, oar_pred.D_2))]
             IN  IF NoneOrNaN(oar_gt.mean) THEN ReturnNaN(g, <<"gt", organ, "Dmean">>)
                 ELSE IF NoneOrNaN(oar_pred.mean)
                      THEN ReturnNaN(g, <<"sCT", organ, "Dmean">>)
                 ELSE [g EXCEPT !.Dmean_OAR = Append(@, RelDiff(oar_gt.mean, oar_pred.mean)),
                                !.k = f.k + 1,
                                !.pc = IF f.k + 1 < Len(f.OAR_used) THEN "oar"
                                       ELSE "aggregate"]

\* lines 222-233
Aggregate(f) ==
    LET term == IF Len(f.D2_OAR) > 0
                THEN FAdd(FMul(FDiv(Num(1), Num(Len(f.D2_OAR))), FSum(f.D2_OAR)),
                          FMul(FDiv(Num(1), Num(Len(f.Dmean_OAR))), FSum(f.Dmean_OAR)))
                ELSE Num(0)
    IN  [f EXCEPT !.pc = "returned", !.OAR_term = term,
                  !.warned = IF Len(f.D2_OAR) < 3 THEN Append(@, <<"Less than 3 OARs used.">>)
                             ELSE @,
                  !.ret = FAdd(f.target_term, term)]

\* the stretch of the body the frame stands before
DvhStep(f, pdose) ==
    CASE f.pc = "index" -> BuildIndex(f)
      [] f.pc = "d98" -> TargetD98(f)
      [] f.pc = "ci" -> TargetCI(f, pdose)
      [] f.pc = "rank" -> RankOARs(f)
      [] f.pc = "select" -> SelectOARs(f)
      [] f.pc = "oar" -> OARStep(f)
      [] f.pc = "aggregate" -> Aggregate(f)
      [] OTHER -> f

Finished(f) == f.pc \in {"returned", "raised"}

RECURSIVE RunDvh(_, _)
RunDvh(f, pdose) == IF Finished(f) THEN f ELSE RunDvh(DvhStep(f, pdose), pdose)

\* the whole call: the frame when the function has returned or raised
dvh_metric(gt_dvh, pred_dvh, region, pdose) == RunDvh(NewFrame(gt_dvh, pred_dvh, region), pdose)

---------------------------------------------------------------------------
(* The inputs of dvh_metric that are explored.  A DVH set is the PTV       *)
(* record followed by at most MaxOAR further records, as the JSON files of *)
(* one patient list the same structures for the CT and for the sCT.        *)

MaxOAR == 4

\* __init__: the default prescribed doses, and another configuration
DefaultDoses == [B |-> Num(2), P |-> Num(3)]
PrescribedDoses == {DefaultDoses, [B |-> <<"num", 5, 2>>, P |-> Num(1)]}
Regions == {"B", "P"}

Rec(name, d2, d5, mean, d98, ci) ==
    [name |-> name, D_2 |-> d2, D_5 |-> d5, mean |-> mean, D_98 |-> d98,
     CI_2Gy |-> ci, CI_2_5Gy |-> ci, CI_3Gy |-> ci]

PtvRec(d98, ci) == Rec("PTV", Num(2), Num(2), Num(2), d98, ci)

\* an organ's statistics in both sets: <<D_2, D_5, mean>> of the CT and of the sCT;
\* name "" stands for the name of the organ's place in the list
Organ(name, gt, pred) == [name |-> name, gt |-> gt, pred |-> pred]
Both(name, d2, d5, mean) ==
    Organ(name, <<Num(d2), Num(d5), Num(mean)>>, <<Num(d2), Num(d5), Num(mean)>>)

OrganNames == <<"Brainstem", "Chiasm", "Cochlea", "Eye", "Lens", "Pituitary">>

Ones == <<Num(1), Num(1), Num(1)>>
Missing == {None, NaN}

\* organs whose statistics are all numbers
Sound ==
    { Both("", 0, 0, 0), Both("", 1, 1, 1), Both("", 2, 0, 2),
      Organ("", <<Num(2), Num(2), Num(2)>>, <<Num(1), Num(0), Num(0)>>),
      Both("GTV", 2, 2, 2), Both("Brainstem", 2, 2, 2) }

\* organs with one statistic missing
Faulty ==
    { Organ("", [Ones EXCEPT ![i] = m], Ones) : i \in 1..3, m \in Missing }
    \cup { Organ("", Ones, [Ones EXCEPT ![i] = m]) : i \in {1, 3}, m \in Missing }

\* lists of n organs, at most one of them faulty, the others from pool
OrganLists(n, pool) ==
    { s \in [1..n -> pool \cup Faulty] : Cardinality({i \in 1..n : s[i] \in Faulty}) <= 1 }

NameAt(s, i) == IF s[i].name = "" THEN OrganNames[i] ELSE s[i].name

GtSet(ptv, s) ==
    <<ptv>> \o [i \in 1..Len(s) |->
                   Rec(NameAt(s, i), s[i].gt[1], s[i].gt[2], s[i].gt[3], Num(1), Num(1))]
PredSet(ptv, s) ==
    <<ptv>> \o [i \in 1..Len(s) |->
                   Rec(NameAt(s, i), s[i].pred[1], s[i].pred[2], s[i].pred[3], Num(1), Num(1))]

PtvVals == {None, NaN, Num(1), Num(2)}

\* every content of the four PTV statistics, with a few lists of other organs
PtvInputs ==
    { <<GtSet(PtvRec(a, c), s), PredSet(PtvRec(b, d), s)>> :
        a \in PtvVals, b \in PtvVals, c \in PtvVals, d \in PtvVals,
        s \in { <<>>, <<Both("", 1, 1, 1)>>,
                <<Organ("", <<Num(1), Num(1), None>>, Ones), Both("", 2, 2, 2)>> } }

\* sound PTV statistics, with every list of organs
OarInputs ==
    { <<GtSet(PtvRec(Num(2), Num(2)), s), PredSet(PtvRec(Num(1), Num(1)), s)>> :
        s \in UNION { OrganLists(n, Sound) : n \in 0..MaxOAR } }

\* sets that lack the PTV, or an organ of the other set
LackingInputs ==
    LET s == <<Both("", 1, 1, 1), Both("", 2, 2, 2)>>
        g == GtSet(PtvRec(Num(2), Num(2)), s)
        q == PredSet(PtvRec(Num(1), Num(1)), s)
    IN  { <<Tail(g), q>>, <<g, Tail(q)>>, <<g, SubSeq(q, 1, 2)>>, <<SubSeq(g, 1, 2), q>> }

InitDvh ==
    /\ \/ /\ prescribed_dose \in PrescribedDoses
          /\ \E io \in PtvInputs, r \in Regions : frame = NewFrame(io[1], io[2], r)
       \/ /\ prescribed_dose = DefaultDoses
          /\ \E io \in OarInputs \cup LackingInputs : frame = NewFrame(io[1], io[2], "B")
    /\ mae = [pc |-> "idle"]
    /\ sp = [pc |-> "idle"]

At(pc) == frame.pc = pc

DoBuildIndex == At("index") /\ frame' = BuildIndex(frame) /\ UNCHANGED <<prescribed_dose, mae, sp>>
DoTargetD98 == At("d98") /\ frame' = TargetD98(frame) /\ UNCHANGED <<prescribed_dose, mae, sp>>
DoTargetCI ==
    At("ci") /\ frame' = TargetCI(frame, prescribed_dose) /\ UNCHANGED <<prescribed_dose, mae, sp>>
DoRankOARs == At("rank") /\ frame' = RankOARs(frame) /\ UNCHANGED <<prescribed_dose, mae, sp>>
DoSelectOARs == At("select") /\ frame' = SelectOARs(frame) /\ UNCHANGED <<prescribed_dose, mae, sp>>
DoOARStep == At("oar") /\ frame' = OARStep(frame) /\ UNCHANGED <<prescribed_dose, mae, sp>>
DoAggregate == At("aggregate") /\ frame' = Aggregate(frame) /\ UNCHANGED <<prescribed_dose, mae, sp>>

NextDvh ==
    \/ DoBuildIndex
    \/ DoTargetD98
    \/ DoTargetCI
    \/ DoRankOARs
    \/ DoSelectOARs
    \/ DoOARStep
    \/ DoAggregate

SpecDvh == InitDvh /\ [][NextDvh]_vars

---------------------------------------------------------------------------
(* DoseMetrics.mae_dose.  A dose cube is the sequence of its voxels; the   *)
(* two cubes of a call have the same shape.                                *)

\* arr[mask]: the entries of arr at the places where mask holds
RECURSIVE Masked(_, _)
Masked(arr, mask) ==
    IF arr = <<>> THEN <<>>
    ELSE (IF Head(mask) THEN <<Head(arr)>> ELSE <<>>) \o Masked(Tail(arr), Tail(mask))

\* d_gt >= abs_th, voxel by voxel
AtLeast(d, abs_th) == [i \in 1..Len(d) |-> PyGe(d[i], abs_th)]

\* mae_dose with the mask taken from the prediction
mae_dose_PredMask(d_gt, d_pred, region, threshold, pdose) ==
    LET abs_th == FMul(threshold, pdose[region])
        d_pred1 == Masked(d_pred, AtLeast(d_pred, abs_th))
        d_gt1 == Masked(d_gt, AtLeast(d_pred, abs_th))
        n == Len(d_gt1)
    IN  FDiv(FSum([i \in 1..n |-> FDiv(FAbs(FSub(d_gt1[i], d_pred1[i])), pdose[region])]),
             Num(n))

\* lines 111-118; np.sum of no voxel is 0.0, and 0.0 / 0 is nan
mae_dose(d_gt, d_pred, region, threshold, pdose) ==
    LET abs_th == FMul(threshold, pdose[region])
        d_pred1 == Masked(d_pred, AtLeast(d_gt, abs_th))
        d_gt1 == Masked(d_gt, AtLeast(d_gt, abs_th))
        n == Len(d_gt1)
    IN  FDiv(FSum([i \in 1..n |-> FDiv(FAbs(FSub(d_gt1[i], d_pred1[i])), pdose[region])]),
             Num(n))

MaxVoxels == 4
VoxelDoses == 0..3
Thresholds == {<<"num", 9, 10>>, Num(1)}

\* the prediction is the ground truth, lowered by one unit at some voxels
Lowered(d, low) == [i \in 1..Len(d) |-> IF low[i] /\ d[i] > 0 THEN d[i] - 1 ELSE d[i]]
Cube(d) == [i \in 1..Len(d) |-> Num(d[i])]

InitMae ==
    /\ prescribed_dose \in PrescribedDoses
    /\ \E n \in 0..MaxVoxels :
         \E d \in [1..n -> VoxelDoses], low \in [1..n -> BOOLEAN],
            r \in Regions, t \in Thresholds :
            mae = [pc |-> "call", d_gt |-> Cube(d), d_pred |-> Cube(Lowered(d, low)),
                   region |-> r, threshold |-> t, ret |-> Unset]
    /\ frame = [pc |-> "idle"]
    /\ sp = [pc |-> "idle"]

DoMaeDose ==
    /\ mae.pc = "call"
    /\ mae' = [mae EXCEPT !.pc = "returned",
                          !.ret = mae_dose(mae.d_gt, mae.d_pred, mae.region, mae.threshold,
                                           prescribed_dose)]
    /\ UNCHANGED <<prescribed_dose, frame, sp>>

NextMae == DoMaeDose

SpecMae == InitMae /\ [][NextMae]_vars

---------------------------------------------------------------------------
(* DoseMetrics.score_patient.  The files are those of the directory        *)
(* dose_path/patient_id; disk maps the name of each file that exists to    *)
(* its content.  The activation sp holds the position pc, the loop         *)
(* variable (the place i in RadTypes), the dict metrics (a function from   *)
(* its keys), and a log of what the call did: the subprocess calls, the    *)
(* files tested with os.path.isfile, opened, and removed with os.remove,   *)
(* what each subprocess call wrote, and the value the DVH block stored.    *)

RadTypes == <<"photon", "proton">>

\* a patient id as its characters; region = patient_id[1], 0-based
PatientIds == { <<"1", "B", "A", "0", "0", "1">>, <<"1", "P", "A", "0", "0", "1">> }
RegionOf(patient_id) == patient_id[2]

\* f"{patient_id}"
RECURSIVE IdStr(_)
IdStr(patient_id) ==
    IF patient_id = <<>> THEN "" ELSE Head(patient_id) \o IdStr(Tail(patient_id))

PlanFile(patient_id, rad_type) == IdStr(patient_id) \o "_RTplan_" \o rad_type \o "s.mat"
GtMatFile(rad_type) == "gtdose_" \o rad_type \o ".mat"
PredMatFile(rad_type) == "preddose_" \o rad_type \o ".mat"
CtDvhFile(rad_type) == "ct_" \o rad_type \o ".json"
PredDvhFile(rad_type) == "sct_" \o rad_type \o ".json"
GammaFile(rad_type) == "gamma_" \o rad_type \o ".json"

OutputFiles(rad_type) ==
    {GtMatFile(rad_type), PredMatFile(rad_type), CtDvhFile(rad_type),
     PredDvhFile(rad_type), GammaFile(rad_type)}

\* what the matRad subprocess may leave behind: dose cubes ...
CubePairs ==
    { <<Cube(<<3, 3, 0>>), Cube(<<3, 2, 0>>)>>,    \* two voxels reach 0.9 of the dose
      <<Cube(<<1, 0>>), Cube(<<1, 1>>)>> }         \* none does
\* ... DVH parameters ...
DvhPairs ==
    { <<GtSet(PtvRec(Num(2), Num(2)), <<Both("", 1, 1, 1)>>),
        PredSet(PtvRec(Num(1), Num(1)), <<Both("", 1, 1, 1)>>)>>,
      <<GtSet(PtvRec(Num(2), Num(2)), <<Both("", 1, 1, 1)>>),
        PredSet(PtvRec(NaN, Num(1)), <<Both("", 1, 1, 1)>>)>>,
      <<GtSet(PtvRec(Num(2), Num(2)), <<Organ("", <<Num(1), Num(1), None>>, Ones)>>),
        PredSet(PtvRec(Num(1), Num(1)), <<Organ("", <<Num(1), Num(1), None>>, Ones)>>)>> }
\* ... and gamma pass rates, with and without an entry for the ROI
GammaCell(cell1, cell2) == [gammaPassRateCell1 |-> cell1, gammaPassRateCell2 |-> cell2]
GammaLists ==
    { <<GammaCell(<<"W", "h", "o", "l", "e", " ", "C", "T">>, Num(99)),
        GammaCell(<<"P", "T", "V", " ", "R", "O", "I">>, Num(95)),
        GammaCell(<<"R", "O", "I", "2">>, Num(90))>>,
      <<GammaCell(<<"W", "h", "o", "l", "e", " ", "C", "T">>, Num(99))>> }

\* 'ROI' in s
Contains(s, sub) ==
    \E i \in 1..(Len(s) - Len(sub) + 1) : SubSeq(s, i, i + Len(sub) - 1) = sub

\* [x for x in gamma_pass if 'ROI' in x['gammaPassRateCell1']]
RoiEntries(gamma_pass) ==
    SelectSeq(gamma_pass, LAMBDA x : Contains(x.gammaPassRateCell1, <<"R", "O", "I">>))

IsFile(name) == name \in DOMAIN sp.disk

\* disk without the files of names
Without(disk, names) == [n \in (DOMAIN disk) \ names |-> disk[n]]

\* metrics[key] = v
Put(metrics, key, v) == (key :> v) @@ metrics

InitPatient ==
    /\ prescribed_dose = DefaultDoses
    /\ frame = [pc |-> "idle"]
    /\ mae = [pc |-> "idle"]
    /\ \E id \in PatientIds :
       \E plans \in SUBSET {PlanFile(id, "photon"), PlanFile(id, "proton")} :
         sp = [pc |-> "plan", patient_id |-> id, region |-> RegionOf(id), i |-> 1,
               disk |-> [n \in plans |-> <<>>], metrics |-> <<>>, exc |-> "none",
               warned |-> <<>>, calls |-> <<>>, written |-> [r \in {} |-> {}],
               tested |-> {}, opened |-> {}, removed |-> {},
               dvh_stored |-> [r \in {} |-> NaN]]

Rad == RadTypes[sp.i]

\* the end of one pass of the loop over rad_type: the next pass, or line 81
NextPass == IF sp.i < Len(RadTypes) THEN [pc |-> "plan", i |-> sp.i + 1]
            ELSE [pc |-> "returned", i |-> sp.i]

\* line 24 with the test of the plan file left out
CheckPlan_NoTest ==
    /\ sp.pc = "plan"
    /\ sp' = [sp EXCEPT !.pc = "subprocess"]
    /\ UNCHANGED <<prescribed_dose, frame, mae>>

\* lines 24 and 79-80
CheckPlan ==
    /\ sp.pc = "plan"
    /\ sp' = IF IsFile(PlanFile(sp.patient_id, Rad))
             THEN [sp EXCEPT !.pc = "subprocess", !.tested = @ \cup {PlanFile(sp.patient_id, Rad)}]
             ELSE [sp EXCEPT !.pc = NextPass.pc, !.i = NextPass.i,
                             !.tested = @ \cup {PlanFile(sp.patient_id, Rad)},
                             !.warned = Append(@, <<"No treatment plan", Rad>>)]
    /\ UNCHANGED <<prescribed_dose, frame, mae>>

\* lines 26-28: the subprocess runs to its end and leaves any of its outputs
CallSubprocess ==
    /\ sp.pc = "subprocess"
    /\ \E out \in SUBSET OutputFiles(Rad), cubes \in CubePairs, dvhs \in DvhPairs,
          gamma \in GammaLists :
         LET content == (GtMatFile(Rad) :> cubes[1]) @@ (PredMatFile(Rad) :> cubes[2])
                        @@ (CtDvhFile(Rad) :> dvhs[1]) @@ (PredDvhFile(Rad) :> dvhs[2])
                        @@ (GammaFile(Rad) :> gamma)
         IN  sp' = [sp EXCEPT !.pc = "mae",
                              !.calls = Append(@, <<sp.patient_id, Rad>>),
                              !.written = (Rad :> out) @@ @,
                              !.disk = [n \in out |-> content[n]] @@ @]
    /\ UNCHANGED <<prescribed_dose, frame, mae>>

\* lines 30-47
MaeBlock ==
    /\ sp.pc = "mae"
    /\ LET gt_mat_file == GtMatFile(Rad)
           pred_mat_file == PredMatFile(Rad)
       IN  sp' = IF IsFile(gt_mat_file) /\ IsFile(pred_mat_file)
                 THEN [sp EXCEPT
                         !.pc = "dvh",
                         !.tested = @ \cup {gt_mat_file, pred_mat_file},
                         !.opened = @ \cup {gt_mat_file, pred_mat_file},
                         !.metrics = Put(@, "mae_target_" \o Rad,
                                         mae_dose(sp.disk[gt_mat_file], sp.disk[pred_mat_file],
                                                  sp.region, <<"num", 9, 10>>, prescribed_dose)),
                         !.disk = Without(@, {gt_mat_file, pred_mat_file}),
                         !.removed = @ \cup {gt_mat_file, pred_mat_file}]
                 ELSE [sp EXCEPT
                         !.pc = "dvh",
                         \* "and" does not test the second file when the first is absent
                         !.tested = @ \cup (IF IsFile(gt_mat_file)
                                            THEN {gt_mat_file, pred_mat_file}
                                            ELSE {gt_mat_file}),
                         !.warned = Append(@, <<"dose cubes not present", Rad>>),
                         !.metrics = Put(@, "mae_target_" \o Rad, NaN)]
    /\ UNCHANGED <<prescribed_dose, frame, mae>>

\* lines 49-65
DvhBlock ==
    /\ sp.pc = "dvh"
    /\ LET ct_dvh_file == CtDvhFile(Rad)
           pred_dvh_file == PredDvhFile(Rad)
           call == dvh_metric(sp.disk[ct_dvh_file], sp.disk[pred_dvh_file], sp.region,
                              prescribed_dose)
       IN  sp' = IF IsFile(ct_dvh_file) /\ IsFile(pred_dvh_file)
                 THEN IF call.pc = "raised"
                      THEN [sp EXCEPT
                              !.pc = "raised", !.exc = call.exc,
                              !.tested = @ \cup {ct_dvh_file, pred_dvh_file},
                              !.opened = @ \cup {ct_dvh_file, pred_dvh_file}]
                      ELSE [sp EXCEPT
                              !.pc = "gamma",
                              !.tested = @ \cup {ct_dvh_file, pred_dvh_file},
                              !.opened = @ \cup {ct_dvh_file, pred_dvh_file},
                              !.metrics = Put(@, "dvh_" \o Rad, call.ret),
                              !.dvh_stored = (Rad :> call.ret) @@ @,
                              !.disk = Without(@, {ct_dvh_file, pred_dvh_file}),
                              !.removed = @ \cup {ct_dvh_file, pred_dvh_file}]
                 ELSE [sp EXCEPT
                         !.pc = "gamma",
                         !.tested = @ \cup (IF IsFile(ct_dvh_file)
                                            THEN {ct_dvh_file, pred_dvh_file}
                                            ELSE {ct_dvh_file}),
                         !.warned = Append(@, <<"DVH files not present", Rad>>),
                         !.metrics = Put(@, "dvh_" \o Rad, NaN),
                         !.dvh_stored = (Rad :> NaN) @@ @]
    /\ UNCHANGED <<prescribed_dose, frame, mae>>

\* lines 67-77
GammaBlock ==
    /\ sp.pc = "gamma"
    /\ LET gamma_file == GammaFile(Rad)
           roi == RoiEntries(sp.disk[gamma_file])
       IN  sp' = IF IsFile(gamma_file)
                 THEN IF roi = <<>>
                      THEN [sp EXCEPT
                              !.pc = "raised", !.exc = "IndexError",
                              !.tested = @ \cup {gamma_file},
                              !.opened = @ \cup {gamma_file}]
                      ELSE [sp EXCEPT
                              !.pc = NextPass.pc, !.i = NextPass.i,
                              !.tested = @ \cup {gamma_file},
                              !.opened = @ \cup {gamma_file},
                              !.metrics = Put(@, "gamma_" \o Rad, roi[1].gammaPassRateCell2),
                              !.disk = Without(@, {gamma_file}),
                              !.removed = @ \cup {gamma_file}]
                 ELSE [sp EXCEPT
                         !.pc = NextPass.pc, !.i = NextPass.i,
                         !.tested = @ \cup {gamma_file},
                         !.warned = Append(@, <<"gamma file not present", Rad>>),
                         !.metrics = Put(@, "dvh_" \o Rad, NaN)]
    /\ UNCHANGED <<prescribed_dose, frame, mae>>

NextPatient ==
    \/ CheckPlan
    \/ CallSubprocess
    \/ MaeBlock
    \/ DvhBlock
    \/ GammaBlock

SpecPatient == InitPatient /\ [][NextPatient]_vars

---------------------------------------------------------------------------
(* Properties of dvh_metric, checked under SpecDvh *)

HasPTV(dvh) == \E i \in 1..Len(dvh) : dvh[i].name = "PTV"
HasOrgan(dvh, organ) == \E i \in 1..Len(dvh) : dvh[i].name = organ
\* the record a name stands for: the last one of that name
RecOf(dvh, organ) ==
    dvh[CHOOSE i \in 1..Len(dvh) :
            dvh[i].name = organ /\ \A j \in (i + 1)..Len(dvh) : dvh[j].name # organ]
\* the place a name takes in the dict: that of its first record
PlaceOf(dvh, organ) == CHOOSE i \in 1..Len(dvh) : dvh[i].name = organ /\ \A j \in 1..(i - 1) : dvh[j].name # organ

\* the names of the ground truth's organs other than PTV, GTV and CTV
Candidates(f) == {f.gt_dvh[i].name : i \in 1..Len(f.gt_dvh)} \ {"PTV", "GTV", "CTV"}
KeyOf(f, organ) ==
    LET r == RecOf(f.gt_dvh, organ)
    IN  IF r.D_5 = None \/ r.mean = None THEN None ELSE FDiv(FAdd(r.D_5, r.mean), Num(2))

BothHavePTV(f) == HasPTV(f.gt_dvh) /\ HasPTV(f.pred_dvh)
CIField == CIKey(prescribed_dose[frame.region])
BothHaveCI(f) ==
    /\ CIField \in DOMAIN RecOf(f.gt_dvh, "PTV")
    /\ CIField \in DOMAIN RecOf(f.pred_dvh, "PTV")

\* one of the PTV's D_98 and conformity index, of either set, is null or nan
PtvStatMissing(f) ==
    LET g == RecOf(f.gt_dvh, "PTV")
        p == RecOf(f.pred_dvh, "PTV")
    IN  \/ NoneOrNaN(g.D_98)
        \/ NoneOrNaN(p.D_98)
        \/ BothHaveCI(f) /\ (NoneOrNaN(g[CIField]) \/ NoneOrNaN(p[CIField]))

PtvStatsSound(f) == BothHavePTV(f) /\ BothHaveCI(f) /\ ~PtvStatMissing(f)

ReturnedNaN(f) == f.pc = "returned" /\ f.ret = NaN

\* no statement of the OAR part has run: its locals are as the call left them
NoOarStep(f) ==
    /\ f.pc \notin {"rank", "select", "oar", "aggregate"}
    /\ f.mean_D5_Dmean_per_OAR = <<>>
    /\ f.OAR_used = <<>>
    /\ f.k = 0
    /\ f.D2_OAR = <<>>
    /\ f.Dmean_OAR = <<>>
    /\ f.OAR_term = Unset

\* C2: when both sets hold a PTV record and one of the PTV's D_98 or
\* conformity index (ground truth or prediction) is null or nan, the call
\* returns nan and no step of the OAR part (ranking keys, selection, OAR
\* terms) is ever executed, whatever the other organs' records hold.
C2_PtvShortCircuit ==
    (BothHavePTV(frame) /\ PtvStatMissing(frame))
        => /\ NoOarStep(frame)
           /\ Finished(frame) => ReturnedNaN(frame)

\* a call that returned nan on the prediction's D_98 with other organs present
C2_Witness ==
    /\ ReturnedNaN(frame)
    /\ BothHavePTV(frame)
    /\ RecOf(frame.gt_dvh, "PTV").D_98 = Num(2)
    /\ RecOf(frame.pred_dvh, "PTV").D_98 = NaN
    /\ Len(frame.gt_dvh) = 3

\* the organs the OAR loop evaluates: all candidates when there are at most
\* three, else the three the selection has put in OAR_used
SelectedOARs(f) ==
    IF Cardinality(Candidates(f)) <= 3 THEN Candidates(f)
    ELSE {f.OAR_used[i] : i \in 1..Len(f.OAR_used)}

OarStatMissing(f, organ) ==
    \/ NoneOrNaN(RecOf(f.gt_dvh, organ).D_2)
    \/ NoneOrNaN(RecOf(f.gt_dvh, organ).mean)
    \/ /\ HasOrgan(f.pred_dvh, organ)
       /\ \/ NoneOrNaN(RecOf(f.pred_dvh, organ).D_2)
          \/ NoneOrNaN(RecOf(f.pred_dvh, organ).mean)

\* C3: with sound PTV statistics, if a selected OAR's D_2 or mean (ground
\* truth or prediction) is null or nan, the finished call has returned nan:
\* it has neither raised nor returned a number.
C3_OarShortCircuit ==
    (/\ Finished(frame)
     /\ PtvStatsSound(frame)
     /\ \A o \in Candidates(frame) : HasOrgan(frame.pred_dvh, o)
     /\ \E o \in SelectedOARs(frame) : OarStatMissing(frame, o))
        => ReturnedNaN(frame)

\* OAR_used has been assigned: the frame stands right after line 190, or in the loop
Selected(f) == f.pc \in {"oar", "aggregate"}

UsedSet(f) == {f.OAR_used[i] : i \in 1..Len(f.OAR_used)}

\* min(3, number of candidates) distinct entries, none of them a target
SelectionSize(f) ==
    /\ Len(f.OAR_used) = Min(3, Cardinality(Candidates(f)))
    /\ Cardinality(UsedSet(f)) = Len(f.OAR_used)
    /\ UsedSet(f) \subseteq Candidates(f)

\* ordered by non-increasing key, no excluded organ above an included one,
\* equal keys in insertion order; organs with a nan key are left aside
SelectionOrder(f) ==
    LET num(o) == IsNum(KeyOf(f, o))
    IN  /\ \A i, j \in 1..Len(f.OAR_used) :
               (i < j /\ num(f.OAR_used[i]) /\ num(f.OAR_used[j]))
                   => /\ PyGe(KeyOf(f, f.OAR_used[i]), KeyOf(f, f.OAR_used[j]))
                      /\ KeyOf(f, f.OAR_used[i]) = KeyOf(f, f.OAR_used[j])
                            => PlaceOf(f.gt_dvh, f.OAR_used[i]) < PlaceOf(f.gt_dvh, f.OAR_used[j])
        /\ \A e \in Candidates(f) \ UsedSet(f), u \in UsedSet(f) :
               (num(e) /\ num(u)) => PyGe(KeyOf(f, u), KeyOf(f, e))

\* C4: OAR_used has min(3, candidates) entries, no target, is ordered by
\* non-increasing key (D_5 + mean)/2 among the keys that are numbers, with no
\* excluded organ above an included one and ties in insertion order.
C4_Selection == Selected(frame) => (SelectionSize(frame) /\ SelectionOrder(frame))

\* a <= b for numbers kept small enough to cross-multiply
SmallLe(a, b) == a[2] * b[3] <= b[2] * a[3]

\* C6: when every selected OAR has the same D_2 and the same mean in both
\* sets, OAR_term is 0 up to an amount of the order of eps, and the score is
\* target_term up to that amount.
C6_IdenticalOars ==
    (/\ frame.pc = "returned"
     /\ IsNum(frame.ret)
     /\ \A o \in UsedSet(frame) :
            /\ RecOf(frame.gt_dvh, o).D_2 = RecOf(frame.pred_dvh, o).D_2
            /\ RecOf(frame.gt_dvh, o).mean = RecOf(frame.pred_dvh, o).mean)
        => /\ SmallLe(frame.OAR_term, FMul(Num(2), eps))
           /\ SmallLe(FSub(frame.ret, frame.target_term), FMul(Num(2), eps))

\* the same call with the two sets swapped
Swapped(f) == dvh_metric(f.pred_dvh, f.gt_dvh, f.region, prescribed_dose)

\* every ranking key (D_5 + mean)/2 of the set is a number
KeysSound(dvh) == \A i \in 1..Len(dvh) : IsNum(dvh[i].D_5) /\ IsNum(dvh[i].mean)

\* C7 as stated, for the calls that return in both directions on sets whose
\* ranking keys are all numbers: the call returns nan through a short-circuit
\* if and only if the call with ground truth and prediction swapped does.
C7_AsStated ==
    (/\ frame.pc = "returned" /\ BothHavePTV(frame) /\ Swapped(frame).pc = "returned"
     /\ KeysSound(frame.gt_dvh) /\ KeysSound(frame.pred_dvh))
        => (ReturnedNaN(frame) <=> ReturnedNaN(Swapped(frame)))

\* the short-circuit of the target part: nan returned before target_term is set
PtvShortCircuit(f) == ReturnedNaN(f) /\ f.target_term = Unset

\* C7 amended: for PTV records that carry D_98 and the conformity-index
\* field, the short-circuit of the target part triggers in a call if and only
\* if it triggers in the swapped call.
C7_TargetSymmetry ==
    (Finished(frame) /\ BothHavePTV(frame) /\ BothHaveCI(frame))
        => (PtvShortCircuit(frame) <=> PtvShortCircuit(Swapped(frame)))

\* the short-circuit triggered by the prediction's conformity index, which
\* the swapped call meets as its ground truth
C7_Witness ==
    /\ PtvShortCircuit(frame)
    /\ BothHavePTV(frame) /\ BothHaveCI(frame)
    /\ RecOf(frame.gt_dvh, "PTV")[CIField] = Num(1)
    /\ RecOf(frame.pred_dvh, "PTV")[CIField] = None
    /\ PtvShortCircuit(Swapped(frame))

---------------------------------------------------------------------------
(* Properties of mae_dose, checked under SpecMae *)

\* the voxels with d_gt >= threshold * prescribed_dose[region], in whole numbers
ChosenVoxels ==
    LET t == mae.threshold
        pd == prescribed_dose[mae.region]
    IN  {i \in 1..Len(mae.d_gt) : mae.d_gt[i][2] * t[3] * pd[3] >= t[2] * pd[2]}

RECURSIVE SumAbsDiff(_)
SumAbsDiff(S) ==
    IF S = {} THEN 0
    ELSE LET i == CHOOSE i \in S : TRUE
         IN  AbsInt(mae.d_gt[i][2] - mae.d_pred[i][2]) + SumAbsDiff(S \ {i})

\* C5: mae_dose takes the voxels where d_gt >= threshold * prescribed dose,
\* the same places from d_pred, and when there is one returns the sum of
\* |d_gt - d_pred| over them divided by their number and by the prescribed dose.
C5_MaeDose ==
    (mae.pc = "returned" /\ ChosenVoxels # {})
        => LET pd == prescribed_dose[mae.region]
           IN  mae.ret = Norm(SumAbsDiff(ChosenVoxels) * pd[3],
                              Cardinality(ChosenVoxels) * pd[2])

\* d_gt = [0,1,2,3], d_pred = [0,1,1,3], prescribed dose 1, threshold 1 give 1/3
C5_Witness ==
    /\ mae.pc = "returned"
    /\ mae.d_gt = <<Num(0), Num(1), Num(2), Num(3)>>
    /\ mae.d_pred = <<Num(0), Num(1), Num(1), Num(3)>>
    /\ prescribed_dose[mae.region] = Num(1)
    /\ mae.threshold = Num(1)
    /\ mae.ret = <<"num", 1, 3>>

---------------------------------------------------------------------------
(* Properties of score_patient, checked under SpecPatient *)

HasPlan(rad_type) == IsFile(PlanFile(sp.patient_id, rad_type))
Rads == {RadTypes[i] : i \in DOMAIN RadTypes}
CallsFor(rad_type) == SelectSeq(sp.calls, LAMBDA c : c[2] = rad_type)
MetricKeys(rad_type) == {"mae_target_" \o rad_type, "dvh_" \o rad_type, "gamma_" \o rad_type}
Touched == sp.tested \cup sp.opened \cup sp.removed
\* the passes of the loop that are over, or past line 27
PastSubprocess(rad_type) ==
    \E i \in DOMAIN RadTypes :
        /\ RadTypes[i] = rad_type
        /\ \/ i < sp.i
           \/ sp.pc = "returned"
           \/ i = sp.i /\ sp.pc \in {"mae", "dvh", "gamma", "raised"}
Wrote(rad_type, name) == rad_type \in DOMAIN sp.written /\ name \in sp.written[rad_type]

(* C1: at the return of score_patient, for every modality whose plan file  *)
(* exists and each of the three outputs, an output the subprocess did not  *)
(* leave has NaN under its own key: mae_target_, dvh_, gamma_<modality>.   *)
C1_MissingOutputNaN ==
    sp.pc = "returned" =>
        \A r \in Rads : HasPlan(r) =>
            /\ ~(Wrote(r, GtMatFile(r)) /\ Wrote(r, PredMatFile(r)))
                 => /\ ("mae_target_" \o r) \in DOMAIN sp.metrics
                    /\ sp.metrics["mae_target_" \o r] = NaN
            /\ ~(Wrote(r, CtDvhFile(r)) /\ Wrote(r, PredDvhFile(r)))
                 => /\ ("dvh_" \o r) \in DOMAIN sp.metrics
                    /\ sp.metrics["dvh_" \o r] = NaN
            /\ ~Wrote(r, GammaFile(r))
                 => /\ ("gamma_" \o r) \in DOMAIN sp.metrics
                    /\ sp.metrics["gamma_" \o r] = NaN

C9_Cleanup ==
    sp.pc \in {"plan", "returned", "raised"} => sp.opened = sp.removed

(* C10: the gamma block leaves dvh_<modality> and mae_target_<modality>    *)
(* as the DVH block left them: after a pass, metrics holds under           *)
(* dvh_<modality> the value the DVH block stored.                          *)
C10_GammaFrame ==
    \A r \in Rads :
        (HasPlan(r) /\ PastSubprocess(r) /\ r \in DOMAIN sp.dvh_stored) =>
            sp.metrics["dvh_" \o r] = sp.dvh_stored[r]

============================================================================
